---- MODULE Spec2Model ----
(***************************************************************************)
(* Model of the update-check-and-install flow of src-tauri/src/main.rs:    *)
(* the check_for_updates command (lines 7-35) and the startup trigger of   *)
(* main's setup closure (lines 113-121).                                   *)
(*                                                                         *)
(* The updater plugin is an external collaborator.  Its contract, as used  *)
(* by the call sites, is: build() returns Ok or Err; check() returns       *)
(* Err, Ok(None) or Ok(Some(update)), the latter only for a strictly newer *)
(* version; download_and_install streams the artifact, calling the first   *)
(* closure once per received chunk with (chunk_length, content_length),    *)
(* calls the second closure once when the stream has ended, and then       *)
(* installs.  Any await may instead end with an error.                     *)
(***************************************************************************)
EXTENDS Integers, Sequences, FiniteSets

\* ------------------------------------------------------------------ bounds
\* Number of times the UI issues the command in one process run.
MaxManual == 1
\* Largest artifact size, in abstract byte units.
MaxSize == 2
\* Largest number of chunks the update source delivers in one process run,
\* all downloads together.
MaxChunks == 2
\* Range of the counter's integer type (usize), scaled down.  The artifact
\* is held in memory while it downloads, so its size stays inside it.
UsizeRange == 16

\* --------------------------------------------------------------- constants
\* std::time::Duration::from_secs(5)
DelaySecs == 5
\* content_length = None
Unknown == -1

\* Invocation 0 is the one the startup trigger makes; 1..MaxManual are the
\* ones the UI makes, in order.
AutoInv == 0
Inv == 0 .. MaxManual

\* What the update source answers to the single query.
Reply == {"Unreachable", "Malformed", "Older", "Equal", "Newer"}

VARIABLES
  debug,       \* cfg(debug_assertions) of the build
  mainPc,      \* "start" before setup has run, "running" after
  startupPc,   \* the startup task: "none", "sleeping", "fired"
  slept,       \* seconds the startup task has slept
  pc,          \* per invocation: position of the spawned task
  origin,      \* per invocation: "none", "auto" or "manual"
  built,       \* per invocation: result of updater_builder().build()
  checked,     \* per invocation: result of updater.check().await
  reply,       \* per invocation: what the update source answered
  downloaded,  \* per invocation: the local `downloaded`
  artifact,    \* size of the artifact the update source serves
  total,       \* its content_length: Unknown (None) or the size
  remaining,   \* per invocation: bytes of the artifact not yet delivered
  outcome,     \* per invocation: how the task ended
  trace,       \* per invocation: calls made and lines printed, in order
  hostErrors   \* errors that reached the command caller or the host

vars == <<debug, mainPc, startupPc, slept, pc, origin, built, checked, reply,
          downloaded, artifact, total, remaining, outcome, trace, hostErrors>>

hostVars == <<debug, mainPc, startupPc, slept, artifact, total>>
dlVars == <<downloaded, remaining>>

\* One entry of an invocation's trace.  ev is the call made or line printed:
\*   "build"     updater_builder().build()
\*   "eprintln"  Failed to build updater: ...
\*   "check"     updater.check()
\*   "download"  update.download_and_install(...)
\*   "chunk"     Downloaded <acc> of <tot>   (callback got len, tot)
\*   "finished"  Download finished
\*   "install"   the install step of download_and_install
Ev(e) == [ev |-> e, len |-> 0, acc |-> 0, tot |-> Unknown]
ChunkEv(n, d, t) == [ev |-> "chunk", len |-> n, acc |-> d, tot |-> t]

RECURSIVE Count(_, _)
Count(s, e) ==
  IF s = <<>> THEN 0
  ELSE (IF Head(s).ev = e THEN 1 ELSE 0) + Count(Tail(s), e)

RECURSIVE SumLen(_)
SumLen(s) ==
  IF s = <<>> THEN 0
  ELSE (IF Head(s).ev = "chunk" THEN Head(s).len ELSE 0) + SumLen(Tail(s))

\* Indices of the entries of kind e.
Pos(s, e) == {k \in 1 .. Len(s) : s[k].ev = e}

\* The lines printed to stdout and stderr.
IsLog(x) == x.ev \in {"eprintln", "chunk", "finished"}
Log(s) == SelectSeq(s, IsLog)

Init ==
  /\ debug \in BOOLEAN
  /\ mainPc = "start"
  /\ startupPc = "none"
  /\ slept = 0
  /\ pc = [i \in Inv |-> "idle"]
  /\ origin = [i \in Inv |-> "none"]
  /\ built = [i \in Inv |-> "none"]
  /\ checked = [i \in Inv |-> "none"]
  /\ reply = [i \in Inv |-> "none"]
  /\ downloaded = [i \in Inv |-> 0]
  /\ artifact \in 0 .. MaxSize
  /\ total \in {Unknown, artifact}
  /\ remaining = [i \in Inv |-> 0]
  /\ outcome = [i \in Inv |-> "none"]
  /\ trace = [i \in Inv |-> <<>>]
  /\ hostErrors = 0

\* ------------------------------------------------------------------- host

\* #[cfg(not(debug_assertions))] around the startup block.
StartupEnabledAlways(d) == TRUE
StartupEnabled(d) == ~d

\* The setup closure: builds and shows the window, and in a non-debug build
\* spawns the startup task.
Setup ==
  /\ mainPc = "start"
  /\ mainPc' = "running"
  /\ startupPc' = IF StartupEnabled(debug) THEN "sleeping" ELSE "none"
  /\ UNCHANGED <<debug, slept, artifact, total, pc, origin, built, checked,
                 reply, dlVars, outcome, trace, hostErrors>>

\* One second of std::thread::sleep passes.
Tick ==
  /\ startupPc = "sleeping"
  /\ slept < DelaySecs
  /\ slept' = slept + 1
  /\ UNCHANGED <<debug, mainPc, startupPc, artifact, total, pc, origin, built,
                 checked, reply, dlVars, outcome, trace, hostErrors>>

\* The sleep of the startup task returns once the duration has passed.
SleepOver(s) == s >= DelaySecs

\* check_for_updates: spawns the task of invocation i and returns ().
SpawnedExclusive(i, o) ==
  /\ pc[i] = "idle"
  /\ \A j \in Inv : pc[j] \in {"idle", "done"}
  /\ pc' = [pc EXCEPT ![i] = "spawned"]
  /\ origin' = [origin EXCEPT ![i] = o]
Spawned(i, o) ==
  /\ pc[i] = "idle"
  /\ pc' = [pc EXCEPT ![i] = "spawned"]
  /\ origin' = [origin EXCEPT ![i] = o]

\* The startup task, after its sleep, calls check_for_updates.
StartupTrigger ==
  /\ startupPc = "sleeping"
  /\ SleepOver(slept)
  /\ Spawned(AutoInv, "auto")
  /\ startupPc' = "fired"
  /\ UNCHANGED <<debug, mainPc, slept, artifact, total, built, checked, reply,
                 dlVars, outcome, trace, hostErrors>>

\* The next invocation the UI can make.
NextManual == {i \in Inv \ {AutoInv} :
                 /\ pc[i] = "idle"
                 /\ \A j \in Inv \ {AutoInv} : j < i => pc[j] # "idle"}

\* The UI issues the check_for_updates command.
UiInvoke ==
  /\ mainPc = "running"
  /\ \E i \in NextManual : Spawned(i, "manual")
  /\ UNCHANGED <<hostVars, built, checked, reply, dlVars, outcome, trace,
                 hostErrors>>

\* ------------------------------------------------- the spawned task body

Emit(i, es) == [trace EXCEPT ![i] = @ \o es]

\* match app.updater_builder().build(): the Ok arm goes on to call
\* updater.check(), the Err arm prints one line to stderr and ends.
AfterBuildFallthrough(ok) ==
  <<Ev("build")>> \o (IF ok THEN <<>> ELSE <<Ev("eprintln")>>)
                  \o <<Ev("check")>>
AfterBuild(ok) ==
  IF ok THEN <<Ev("build"), Ev("check")>>
        ELSE <<Ev("build"), Ev("eprintln")>>

Build(i) ==
  /\ pc[i] = "spawned"
  /\ \E ok \in BOOLEAN :
       /\ built' = [built EXCEPT ![i] = IF ok THEN "Ok" ELSE "Err"]
       /\ trace' = Emit(i, AfterBuild(ok))
       /\ pc' = [pc EXCEPT ![i] = IF ok THEN "check" ELSE "done"]
       /\ outcome' = [outcome EXCEPT ![i] = IF ok THEN @ ELSE "BuildErr"]
  /\ UNCHANGED <<hostVars, origin, checked, reply, dlVars, hostErrors>>

\* updater.check(): Err when the source cannot be reached or its answer
\* cannot be read, Some only for a version newer than the running one.
CheckResult(rep) ==
  CASE rep \in {"Unreachable", "Malformed"} -> "Err"
    [] rep \in {"Older", "Equal"} -> "None"
    [] rep = "Newer" -> "Some"

\* if let Ok(Some(update)) = updater.check().await
ProceedsOnOk(r) == r # "Err"
Proceeds(r) == r = "Some"

\* What the task does once check() has returned r: the download call when
\* the pattern matches, nothing otherwise.
AfterCheckReported(r) ==
  IF r = "Some" THEN <<Ev("download")>>
  ELSE IF r = "Err" THEN <<Ev("eprintln")>> ELSE <<>>
AfterCheck(r) == IF Proceeds(r) THEN <<Ev("download")>> ELSE <<>>

CheckReturns(i) ==
  /\ pc[i] = "check"
  /\ \E rep \in Reply :
       LET r == CheckResult(rep) IN
       /\ reply' = [reply EXCEPT ![i] = rep]
       /\ checked' = [checked EXCEPT ![i] = r]
       /\ trace' = Emit(i, AfterCheck(r))
       /\ IF Proceeds(r)
            THEN /\ pc' = [pc EXCEPT ![i] = "download"]
                 /\ downloaded' = [downloaded EXCEPT ![i] = 0]
                 /\ remaining' = [remaining EXCEPT ![i] = artifact]
                 /\ UNCHANGED outcome
            ELSE /\ pc' = [pc EXCEPT ![i] = "done"]
                 /\ outcome' = [outcome EXCEPT ![i] =
                                  IF r = "Err" THEN "CheckErr" ELSE "NoUpdate"]
                 /\ UNCHANGED dlVars
  /\ UNCHANGED <<hostVars, origin, built, hostErrors>>

\* downloaded += chunk_length
AccumulateAssign(d, n) == n
AccumulateNarrow(d, n) == (d + n) % 2
Accumulate(d, n) == (d + n) % UsizeRange

\* The first closure: it captures the `downloaded` of its own invocation.
OnChunkShared(dl, i, n) == [j \in Inv |-> Accumulate(dl[j], n)]
OnChunk(dl, i, n) == [dl EXCEPT ![i] = Accumulate(@, n)]

\* Chunks delivered so far to the invocations of S.
RECURSIVE Delivered(_)
Delivered(S) ==
  IF S = {} THEN 0
  ELSE LET i == CHOOSE x \in S : TRUE
       IN Count(trace[i], "chunk") + Delivered(S \ {i})

\* A chunk of n bytes arrives and the first closure runs.
Chunk(i) ==
  /\ pc[i] = "download"
  /\ Delivered(Inv) < MaxChunks
  /\ \E n \in 0 .. remaining[i] :
       /\ remaining' = [remaining EXCEPT ![i] = @ - n]
       /\ downloaded' = OnChunk(downloaded, i, n)
       /\ trace' = Emit(i, <<ChunkEv(n, downloaded'[i], total)>>)
  /\ UNCHANGED <<hostVars, pc, origin, built, checked, reply, outcome,
                 hostErrors>>

\* Where the task goes when download_and_install returns Err: .ok() drops
\* the error and the task ends.
AfterErrRetry == "check"
AfterErr == "done"

\* The stream fails before the artifact is complete.
DownloadFail(i) ==
  /\ pc[i] = "download"
  /\ pc' = [pc EXCEPT ![i] = AfterErr]
  /\ outcome' = [outcome EXCEPT ![i] = "DownloadErr"]
  /\ UNCHANGED <<hostVars, origin, built, checked, reply, dlVars, trace,
                 hostErrors>>

\* The second closure.
OnDownloadFinishTwice == <<Ev("finished"), Ev("finished")>>
OnDownloadFinish == <<Ev("finished")>>

\* The stream has delivered the whole artifact: the second closure runs.
DownloadFinish(i) ==
  /\ pc[i] = "download"
  /\ remaining[i] = 0
  /\ trace' = Emit(i, OnDownloadFinish)
  /\ pc' = [pc EXCEPT ![i] = "install"]
  /\ UNCHANGED <<hostVars, origin, built, checked, reply, dlVars, outcome,
                 hostErrors>>

\* The install step runs and succeeds or fails; .ok() drops the result.
Install(i) ==
  /\ pc[i] = "install"
  /\ \E ok \in BOOLEAN :
       /\ outcome' = [outcome EXCEPT ![i] =
                        IF ok THEN "Installed" ELSE "InstallErr"]
       /\ pc' = [pc EXCEPT ![i] = IF ok THEN "done" ELSE AfterErr]
  /\ trace' = Emit(i, <<Ev("install")>>)
  /\ UNCHANGED <<hostVars, origin, built, checked, reply, dlVars, hostErrors>>

TaskStep(i) ==
  \/ Build(i)
  \/ CheckReturns(i)
  \/ Chunk(i)
  \/ DownloadFail(i)
  \/ DownloadFinish(i)
  \/ Install(i)

Next ==
  \/ Setup
  \/ Tick
  \/ StartupTrigger
  \/ UiInvoke
  \/ \E i \in Inv : Build(i)
  \/ \E i \in Inv : CheckReturns(i)
  \/ \E i \in Inv : Chunk(i)
  \/ \E i \in Inv : DownloadFail(i)
  \/ \E i \in Inv : DownloadFinish(i)
  \/ \E i \in Inv : Install(i)

Spec == Init /\ [][Next]_vars

\* The host runs setup, time passes, and the runtime keeps polling every
\* spawned task; each await of the task eventually returns.
FairSpec ==
  /\ Spec
  /\ WF_vars(Setup)
  /\ WF_vars(Tick)
  /\ WF_vars(StartupTrigger)
  /\ \A i \in Inv : WF_vars(TaskStep(i))

\* ------------------------------------------------------------ properties

Calls(i, e) == Count(trace[i], e)
ChunkPos(i) == Pos(trace[i], "chunk")

\* C1: an invocation starts a download (and with it an install) exactly
\* when its client was built and its query returned an available, strictly
\* newer update; when the source reports no newer version, an equal version
\* included, the invocation makes no download and no install attempt and
\* ends, and no error reaches the caller or the host.
C1_DownloadIffUpdate ==
  \A i \in Inv :
    /\ (Calls(i, "download") > 0) <=> (built[i] = "Ok" /\ checked[i] = "Some")
    /\ checked[i] = "Some" <=> reply[i] = "Newer"
    /\ Calls(i, "install") > 0 => Calls(i, "download") > 0
    /\ reply[i] \in {"Older", "Equal"} =>
         /\ Calls(i, "download") = 0
         /\ Calls(i, "install") = 0
         /\ pc[i] = "done"
         /\ outcome[i] = "NoUpdate"
         /\ hostErrors = 0

C1_Witness ==
  /\ \E i \in Inv : reply[i] = "Equal" /\ pc[i] = "done"
  /\ \E j \in Inv : reply[j] = "Newer" /\ Calls(j, "download") = 1

\* C2: once a download has delivered all of its chunks, the counter
\* `downloaded`, started at 0 and increased by each chunk's length, equals
\* the size of the artifact: the sum of the chunk lengths, and the reported
\* content length when that is known; the value printed with the last chunk
\* is that size.
C2_CounterEqualsSize ==
  \A i \in Inv :
    Calls(i, "finished") > 0 =>
      /\ downloaded[i] = SumLen(trace[i])
      /\ downloaded[i] = artifact
      /\ total # Unknown => downloaded[i] = total
      /\ \A k \in ChunkPos(i) :
           (\A l \in ChunkPos(i) : l <= k) => trace[i][k].acc = artifact

C2_Witness ==
  \E i \in Inv :
    /\ Calls(i, "finished") = 1
    /\ Calls(i, "chunk") = 2
    /\ \A k \in ChunkPos(i) : trace[i][k].len = 1
    /\ total = 2
    /\ downloaded[i] = 2

\* C3: within one invocation the value printed after a chunk is at least
\* the value printed after every earlier chunk of the same download, and
\* the counter never decreases from one step to the next while the
\* download runs.
C3_Monotonic ==
  /\ [](\A i \in Inv : \A k, l \in ChunkPos(i) :
          k < l => trace[i][k].acc <= trace[i][l].acc)
  /\ [][\A i \in Inv :
          pc[i] = "download" => downloaded'[i] >= downloaded[i]]_vars

C3_Witness ==
  \E i \in Inv : \E k, l \in ChunkPos(i) :
    /\ k < l
    /\ trace[i][k].len = 0
    /\ trace[i][l].len > 0
    /\ trace[i][k].acc < trace[i][l].acc

\* C4: when building the updater client fails, the invocation prints
\* exactly one error line and ends at once: no query, no download, no
\* install, and nothing reaches the caller or the host.
C4_BuildFailureAborts ==
  \A i \in Inv :
    built[i] = "Err" =>
      /\ Log(trace[i]) = <<Ev("eprintln")>>
      /\ Calls(i, "check") = 0
      /\ Calls(i, "download") = 0
      /\ Calls(i, "install") = 0
      /\ pc[i] = "done"
      /\ hostErrors = 0

C4_Witness == \E i \in Inv : built[i] = "Err" /\ outcome[i] = "BuildErr"

\* What can be seen of an invocation from outside: the calls it made, the
\* lines it printed and where it stands.
Observable(i) ==
  [calls |-> trace[i], log |-> Log(trace[i]), pc |-> pc[i],
   downloaded |-> downloaded[i]]

\* C5: when the query fails, the invocation makes no download attempt,
\* prints nothing and ends; what can be observed of it is what can be
\* observed of an invocation whose query reported no update.
C5_QueryFailureLikeNoUpdate ==
  \A i \in Inv :
    checked[i] = "Err" =>
      /\ Calls(i, "download") = 0
      /\ Calls(i, "install") = 0
      /\ Log(trace[i]) = <<>>
      /\ pc[i] = "done"
      /\ hostErrors = 0
      /\ \A j \in Inv : checked[j] = "None" => Observable(i) = Observable(j)

C5_Witness ==
  \E i, j \in Inv :
    /\ reply[i] = "Unreachable" /\ checked[i] = "Err"
    /\ reply[j] = "Equal" /\ checked[j] = "None"

C7_StartupTrigger ==
  /\ [](/\ startupPc = "fired" <=> origin[AutoInv] = "auto"
        /\ Cardinality({i \in Inv : origin[i] = "auto"}) <= 1
        /\ startupPc = "fired" => ~debug /\ slept >= DelaySecs
        /\ pc[AutoInv] # "idle" => startupPc = "fired"
        /\ debug => /\ startupPc = "none"
                    /\ \A i \in Inv : origin[i] \in {"none", "manual"})
  /\ [][startupPc = "fired" =>
          startupPc' = "fired" /\ origin'[AutoInv] = origin[AutoInv]]_vars
  /\ (~debug) ~> (startupPc = "fired")

C7_Witness ==
  /\ ~debug
  /\ startupPc = "fired"
  /\ slept = DelaySecs
  /\ origin[AutoInv] = "auto"
  /\ \E i \in Inv : origin[i] = "manual"

\* The state machine of one invocation.
State(i) ==
  CASE pc[i] = "idle" -> "Idle"
    [] pc[i] \in {"spawned", "check"} -> "Checking"
    [] pc[i] \in {"download", "install"} -> "Downloading"
    [] pc[i] = "done" /\ outcome[i] \in {"NoUpdate", "CheckErr"} -> "NoUpdate"
    [] pc[i] = "done" /\ outcome[i] = "Installed" -> "Installed"
    [] OTHER -> "Failed"

Terminal == {"NoUpdate", "Installed", "Failed"}

Edges ==
  {<<"Idle", "Checking">>,
   <<"Checking", "NoUpdate">>, <<"Checking", "Downloading">>,
   <<"Checking", "Failed">>,
   <<"Downloading", "Installed">>, <<"Downloading", "Failed">>}

\* C8: an invocation moves Idle -> Checking -> (NoUpdate | Downloading) ->
\* Installed | Failed and never back; it builds, queries and downloads at
\* most once each, a failure of download or install ends it without a
\* retry, a terminal state is never left, and once spawned it reaches a
\* terminal state as long as its awaits return.
C8_LinearAndTerminates ==
  /\ [](\A i \in Inv :
          /\ Calls(i, "build") <= 1
          /\ Calls(i, "check") <= 1
          /\ Calls(i, "download") <= 1
          /\ outcome[i] \in {"DownloadErr", "InstallErr"} =>
               pc[i] = "done" /\ hostErrors = 0)
  /\ [][\A i \in Inv :
          /\ State(i)' # State(i) => <<State(i), State(i)'>> \in Edges
          /\ State(i) \in Terminal => State(i)' = State(i)]_vars
  /\ \A i \in Inv : (pc[i] # "idle") ~> (State(i) \in Terminal)

C8_Witness ==
  /\ \E i \in Inv : outcome[i] = "DownloadErr" /\ State(i) = "Failed"
  /\ \E j \in Inv : outcome[j] = "Installed" /\ State(j) = "Installed"

\* C9: invocations are not mutually excluded: while the host runs, the
\* command can be issued and the startup trigger can fire whatever the
\* other invocations are doing, and issuing it leaves them as they are.
C9_NoMutualExclusion ==
  /\ [](/\ (mainPc = "running" /\ \E i \in Inv \ {AutoInv} : pc[i] = "idle")
             => ENABLED UiInvoke
        /\ (startupPc = "sleeping" /\ slept >= DelaySecs)
             => ENABLED StartupTrigger)
  /\ [][\A i \in Inv :
          (pc[i] = "idle" /\ pc'[i] = "spawned") =>
             \A j \in Inv \ {i} : pc'[j] = pc[j] /\ trace'[j] = trace[j]]_vars

\* Two invocations are downloading at the same time.
C9_Witness ==
  \E i, j \in Inv :
    /\ i # j
    /\ pc[i] = "download" /\ Calls(i, "chunk") >= 1
    /\ pc[j] = "download" /\ Calls(j, "chunk") >= 1

\* C10: the counter belongs to its invocation: a chunk callback of one
\* invocation changes no other invocation's `downloaded`, each counter is
\* the sum of its own invocation's chunks, and a download starts counting
\* at 0.
C10_CounterPrivate ==
  /\ [](\A i \in Inv : downloaded[i] = SumLen(trace[i]))
  /\ [][\A i \in Inv :
          /\ Calls(i, "chunk")' > Calls(i, "chunk") =>
               \A j \in Inv \ {i} : downloaded'[j] = downloaded[j]
          /\ (pc[i] # "download" /\ pc'[i] = "download") =>
               /\ downloaded'[i] = 0
               /\ \A j \in Inv \ {i} : downloaded'[j] = downloaded[j]]_vars

C10_Witness ==
  \E i, j \in Inv :
    /\ i # j
    /\ downloaded[i] = 2
    /\ downloaded[j] = 1
    /\ pc[i] = "download"
    /\ pc[j] = "download"

====
